---- MODULE Spec2Model ----
(***************************************************************************)
(* OMPT runtime visualizer: the lifecycle callbacks of visualizer_tool.c   *)
(* and the annotation utilities of runtime_visualizer_utils.h, as a state  *)
(* machine over a pool of worker threads sharing stdout, the monotonic     *)
(* clock, the process environment and the two plain globals ompt_loaded    *)
(* and first_call.                                                         *)
(***************************************************************************)
EXTENDS Integers, Sequences, FiniteSets, TLC

\* ------------------------------------------------------------------ bounds
NumWorkers == 2
NumTraceWorkers == 1
MaxOut == 2
MaxTicks == 1

\* The worker threads of the process, by omp_get_thread_num.
Workers == 0 .. (NumWorkers - 1)

\* The workers that are driven where one worker's own trace is followed.
TraceWorkers == 0 .. (NumTraceWorkers - 1)

\* The master thread.
MasterOnly == { 0 }

\* ------------------------------------------------- host-declared enumerations
\* The enumerators are compared by equality only; they are kept symbolic.
WorkTypes ==
  { "ompt_work_loop", "ompt_work_sections", "ompt_work_single_executor",
    "ompt_work_single_other", "ompt_work_workshare", "ompt_work_distribute",
    "ompt_work_taskloop", "ompt_work_scope", "work_0" }

SyncKinds ==
  { "ompt_sync_region_barrier", "ompt_sync_region_barrier_implicit",
    "ompt_sync_region_barrier_explicit",
    "ompt_sync_region_barrier_implementation", "ompt_sync_region_taskwait",
    "ompt_sync_region_taskgroup", "ompt_sync_region_reduction",
    "ompt_sync_region_barrier_teams", "sync_0" }

Endpoints == { "ompt_scope_begin", "ompt_scope_end", "ompt_scope_beginend" }

EventKinds ==
  { "ompt_callback_thread_begin", "ompt_callback_parallel_begin",
    "ompt_callback_parallel_end", "ompt_callback_work",
    "ompt_callback_implicit_task", "ompt_callback_sync_region",
    "ompt_callback_task_create" }

Lookups == { "null", "unresolving", "resolving" }

\* ------------------------------------------------------------------ inputs
Requested == { 1, 4 }
Counts == { 5 }
TeamSizes == { 2 }
SomeWorkTypes == { "ompt_work_loop", "work_0" }
SomeSyncKinds == { "ompt_sync_region_barrier" }
TickNs == { 1700 }
StartClocks == { [tv_sec |-> 0, tv_nsec |-> 999999600] }

VARIABLES
  env,          \* OMP_TOOL_LIBRARIES is set in the process environment
  ompt_loaded,  \* runtime_visualizer_utils.h:12
  first_call,   \* runtime_visualizer_utils.h:13
  clock,        \* CLOCK_MONOTONIC as a struct timespec
  ticks,        \* how many times the modelled clock has advanced
  out,          \* the lines written to stdout, in order
  pc,           \* per worker: where it stands inside ompt_annotate
  annotation,   \* per worker: the parameter of its ompt_annotate call
  env_val,      \* per worker: check_ompt_loaded's local ompt_tool_libraries
  pend,         \* per worker: its stores of lines 20/22 and 38 not yet visible
  timestamp,    \* per worker: the local timestamp of ompt_annotate
  tool,         \* the host's view of the tool
  result,       \* the static ompt_start_tool_result_t of ompt_start_tool
  lookup,       \* the lookup argument the host gave the initializer
  callbacks,    \* the host's callback table
  init_ret,     \* what the initializer returned, <<>> before it returns
  check_count,  \* executions of check_ompt_loaded
  first_eval,   \* the value the first execution of check_ompt_loaded stored
  ts_calls,     \* calls of get_timestamp
  latch,        \* per worker: first_call when it entered ompt_annotate
  done          \* per worker: its last completed call

vars ==
  << env, ompt_loaded, first_call, clock, ticks, out, pc, annotation, env_val,
     pend, timestamp, tool, result, lookup, callbacks, init_ret, check_count,
     first_eval, ts_calls, latch, done >>

\* ------------------------------------------------------------ output lines
\* A line of the tool itself (initializer, finalizer).
ToolLine(text) == [text |-> text]

IsEvent(line) == "prefix" \in DOMAIN line

EventIdx == { i \in DOMAIN out : IsEvent(out[i]) }

NumEvents == Cardinality(EventIdx)

\* The workers inside ompt_annotate that have not taken their timestamp yet.
InFlight ==
  { w \in Workers : pc[w] \in { "entered", "check", "store", "test", "stamp" } }

\* The model stops starting calls once MaxOut timestamps are taken or may
\* still be taken by the calls under way: every event line follows one
\* get_timestamp call.
Budget == ts_calls + Cardinality(InFlight) < MaxOut

\* ------------------------------------------------------------- the clock
NSEC_PER_SEC == 1000000000

\* clock_gettime(CLOCK_MONOTONIC) after d more nanoseconds.
Advance(ts, d) ==
  [ tv_sec  |-> ts.tv_sec + ((ts.tv_nsec + d) \div NSEC_PER_SEC),
    tv_nsec |-> (ts.tv_nsec + d) % NSEC_PER_SEC ]

\* get_timestamp with the seconds left out of the sum.
get_timestamp_nsec_only(ts) == ts.tv_nsec

\* get_timestamp: tv_sec * 1000000.0 + tv_nsec / 1000.0, microseconds.  The
\* double is kept as a fixed-point number of thousandths of a microsecond,
\* which is exact for every timespec.
get_timestamp(ts) == ts.tv_sec * 1000000 * 1000 + ts.tv_nsec

\* printf("%.3f", timestamp / 1000.0): milliseconds with three decimals, the
\* value rounded to the nearest thousandth.  The printed text is the pair
\* <<integer part, three fraction digits>>.
FormatMs(t) ==
  LET us == (t + 500) \div 1000
  IN  << us \div 1000, us % 1000 >>

\* Reading the printed milliseconds back, as a count of thousandths.
ParseMs(ms) == ms[1] * 1000 + ms[2]

\* omp_get_thread_num() on worker w.
omp_get_thread_num(w) == w

\* --------------------------------------------------------- display names
\* work_type_str with the ompt_work_single_other arm giving the name of the
\* arm above it.
work_type_str_single_twice(work_type) ==
  IF work_type = "ompt_work_loop" THEN "loop"
  ELSE IF work_type = "ompt_work_sections" THEN "sections"
  ELSE IF work_type = "ompt_work_single_executor" THEN "single"
  ELSE IF work_type = "ompt_work_single_other" THEN "single"
  ELSE IF work_type = "ompt_work_workshare" THEN "workshare"
  ELSE IF work_type = "ompt_work_distribute" THEN "distribute"
  ELSE IF work_type = "ompt_work_taskloop" THEN "taskloop"
  ELSE "unknown"

work_type_str(work_type) ==
  IF work_type = "ompt_work_loop" THEN "loop"
  ELSE IF work_type = "ompt_work_sections" THEN "sections"
  ELSE IF work_type = "ompt_work_single_executor" THEN "single"
  ELSE IF work_type = "ompt_work_single_other" THEN "single_other"
  ELSE IF work_type = "ompt_work_workshare" THEN "workshare"
  ELSE IF work_type = "ompt_work_distribute" THEN "distribute"
  ELSE IF work_type = "ompt_work_taskloop" THEN "taskloop"
  ELSE "unknown"

sync_type_str(kind) ==
  IF kind = "ompt_sync_region_barrier" THEN "barrier"
  ELSE IF kind = "ompt_sync_region_barrier_implicit" THEN "implicit_barrier"
  ELSE IF kind = "ompt_sync_region_barrier_explicit" THEN "explicit_barrier"
  ELSE IF kind = "ompt_sync_region_barrier_implementation"
       THEN "implementation_barrier"
  ELSE IF kind = "ompt_sync_region_taskwait" THEN "taskwait"
  ELSE IF kind = "ompt_sync_region_taskgroup" THEN "taskgroup"
  ELSE IF kind = "ompt_sync_region_reduction" THEN "reduction"
  ELSE "unknown"

work_event_type(endpoint) ==
  IF endpoint = "ompt_scope_begin" THEN "START" ELSE "END"

\* task_event_type deciding by a test against ompt_scope_end.
task_event_type_by_end(endpoint) ==
  IF endpoint = "ompt_scope_end" THEN "TASK FINISH" ELSE "TASK START"

task_event_type(endpoint) ==
  IF endpoint = "ompt_scope_begin" THEN "TASK START" ELSE "TASK FINISH"

sync_event_type(endpoint) ==
  IF endpoint = "ompt_scope_begin" THEN "ENTER" ELSE "EXIT"

\* ------------------------------------------------------- formatted records
\* parallel_begin_line with thread_id given to printf twice.
parallel_begin_line_thread_twice(thread_id, ts, requested_parallelism) ==
  [ prefix |-> "[OMPT]", thread |-> thread_id, event |-> << "PARALLEL BEGIN" >>,
    ms |-> FormatMs(ts), attrs |-> << thread_id >> ]

parallel_begin_line(thread_id, ts, requested_parallelism) ==
  [ prefix |-> "[OMPT]", thread |-> thread_id, event |-> << "PARALLEL BEGIN" >>,
    ms |-> FormatMs(ts), attrs |-> << requested_parallelism >> ]

parallel_end_line(thread_id, ts) ==
  [ prefix |-> "[OMPT]", thread |-> thread_id, event |-> << "PARALLEL END" >>,
    ms |-> FormatMs(ts), attrs |-> << >> ]

work_line(thread_id, ts, work_type, endpoint, count) ==
  [ prefix |-> "[OMPT]", thread |-> thread_id,
    event |-> << "WORK", work_event_type(endpoint) >>,
    ms |-> FormatMs(ts), attrs |-> << work_type_str(work_type), count >> ]

implicit_task_line(thread_id, ts, endpoint, team_size) ==
  [ prefix |-> "[OMPT]", thread |-> thread_id,
    event |-> << task_event_type(endpoint) >>,
    ms |-> FormatMs(ts), attrs |-> << team_size >> ]

sync_region_line(thread_id, ts, kind, endpoint) ==
  [ prefix |-> "[OMPT]", thread |-> thread_id,
    event |-> << sync_event_type(endpoint), sync_type_str(kind) >>,
    ms |-> FormatMs(ts), attrs |-> << >> ]

annotate_line(thread_id, ts, label) ==
  [ prefix |-> "[OMPT_annotation]", thread |-> thread_id,
    event |-> << "Annotation" >>, ms |-> FormatMs(ts), attrs |-> << label >> ]

\* ------------------------------------------------------------ initial state
NoCall ==
  [ op |-> "none", args |-> << >>, enabled |-> FALSE, latch |-> FALSE,
    at |-> 0, n |-> 0 ]

NoCallbacks == [ e \in EventKinds |-> "none" ]

NoResult == [ initialize |-> "none", finalize |-> "none", tool_data |-> 0 ]

Init ==
  /\ env \in BOOLEAN
  /\ ompt_loaded = FALSE
  /\ first_call = TRUE
  /\ clock \in StartClocks
  /\ ticks = 0
  /\ out = << >>
  /\ pc = [ w \in Workers |-> "idle" ]
  /\ annotation = [ w \in Workers |-> "" ]
  /\ env_val = [ w \in Workers |-> FALSE ]
  /\ pend = [ w \in Workers |-> {} ]
  /\ timestamp = [ w \in Workers |-> 0 ]
  /\ tool = "unloaded"
  /\ result = NoResult
  /\ lookup = "none"
  /\ callbacks = NoCallbacks
  /\ init_ret = << >>
  /\ check_count = 0
  /\ first_eval = << >>
  /\ ts_calls = 0
  /\ latch = [ w \in Workers |-> FALSE ]
  /\ done = [ w \in Workers |-> NoCall ]

\* The process runs until a call through a null function pointer ends it.
Alive == tool # "crashed"

annotVars == << pc, annotation, env_val, pend, timestamp, latch >>
flagVars == << ompt_loaded, first_call, check_count, first_eval >>
hostVars == << tool, result, lookup, callbacks, init_ret >>
clockVars == << clock, ticks >>

\* ------------------------------------------------------------- environment
\* Time passes on the monotonic clock.
Tick ==
  /\ Alive
  /\ ticks < MaxTicks
  /\ \E d \in TickNs : clock' = Advance(clock, d)
  /\ ticks' = ticks + 1
  /\ UNCHANGED << env, out, ts_calls, done, annotVars, flagVars, hostVars >>

\* The application sets or unsets OMP_TOOL_LIBRARIES (setenv / unsetenv).
EnvChange ==
  /\ Alive
  /\ env' = ~env
  /\ UNCHANGED << out, ts_calls, done, annotVars, flagVars, hostVars,
                  clockVars >>

\* ------------------------------------------------------- lifecycle handlers
Registered(handler) == \E e \in EventKinds : callbacks[e] = handler

\* What every handler does around its own formatting: one get_timestamp call,
\* omp_get_thread_num, one printf.  lines is what the handler prints.
Handler(w, op, args, lines) ==
  /\ Alive
  /\ tool = "initialized"
  /\ pc[w] = "idle"
  /\ Budget
  /\ Registered(op)
  /\ ts_calls' = ts_calls + 1
  /\ out' = out \o lines
  /\ done' = [ done EXCEPT ![w] =
                 [ op |-> op, args |-> args, enabled |-> ompt_loaded,
                   latch |-> first_call, at |-> Len(out) + 1,
                   n |-> Len(out') - Len(out) ] ]
  /\ UNCHANGED << env, annotVars, flagVars, hostVars, clockVars >>

on_ompt_callback_parallel_begin(w, requested_parallelism) ==
  Handler(w, "on_ompt_callback_parallel_begin", << requested_parallelism >>,
          << parallel_begin_line(omp_get_thread_num(w), get_timestamp(clock),
                                 requested_parallelism) >>)

on_ompt_callback_parallel_end(w) ==
  Handler(w, "on_ompt_callback_parallel_end", << >>,
          << parallel_end_line(omp_get_thread_num(w), get_timestamp(clock)) >>)

on_ompt_callback_work(w, work_type, endpoint, count) ==
  Handler(w, "on_ompt_callback_work", << work_type, endpoint, count >>,
          << work_line(omp_get_thread_num(w), get_timestamp(clock),
                       work_type, endpoint, count) >>)

on_ompt_callback_implicit_task(w, endpoint, team_size) ==
  Handler(w, "on_ompt_callback_implicit_task", << endpoint, team_size >>,
          << implicit_task_line(omp_get_thread_num(w), get_timestamp(clock),
                                endpoint, team_size) >>)

on_ompt_callback_sync_region(w, kind, endpoint) ==
  Handler(w, "on_ompt_callback_sync_region", << kind, endpoint >>,
          << sync_region_line(omp_get_thread_num(w), get_timestamp(clock),
                              kind, endpoint) >>)

\* ------------------------------------------------------------ ompt_annotate
\* ompt_annotate reads and writes the plain globals first_call and
\* ompt_loaded with no synchronisation, so each access is a step of its own
\* and other workers run in between.

\* The call: worker w enters ompt_annotate(a).
annotate_enter(w, a) ==
  /\ Alive
  /\ pc[w] = "idle"
  /\ Budget
  /\ pc' = [ pc EXCEPT ![w] = "entered" ]
  /\ annotation' = [ annotation EXCEPT ![w] = a ]
  /\ latch' = [ latch EXCEPT ![w] = first_call ]
  /\ UNCHANGED << env, out, ts_calls, done, env_val, pend, timestamp,
                  flagVars, hostVars, clockVars >>

\* if (first_call)
annotate_read_first_call(w) ==
  /\ Alive
  /\ pc[w] = "entered"
  /\ pc' = [ pc EXCEPT ![w] = IF first_call THEN "check" ELSE "test" ]
  /\ UNCHANGED << env, out, ts_calls, done, annotation, env_val, pend,
                  timestamp, latch, flagVars, hostVars, clockVars >>

\* check_ompt_loaded: getenv("OMP_TOOL_LIBRARIES") into the local.
check_ompt_loaded(w) ==
  /\ Alive
  /\ pc[w] = "check"
  /\ env_val' = [ env_val EXCEPT ![w] = env ]
  /\ check_count' = check_count + 1
  /\ pend' = [ pend EXCEPT ![w] = { "ompt_loaded", "first_call" } ]
  /\ pc' = [ pc EXCEPT ![w] = "store" ]
  /\ UNCHANGED << env, out, ts_calls, done, annotation, timestamp, latch,
                  ompt_loaded, first_call, first_eval, hostVars, clockVars >>

\* The store of check_ompt_loaded (ompt_loaded = true / false) and the store
\* first_call = false.  Both are plain stores that race with the other
\* workers' reads: they become visible one at a time, in either order.
annotate_store(w, v) ==
  /\ Alive
  /\ pc[w] = "store"
  /\ v \in pend[w]
  /\ IF v = "ompt_loaded"
       THEN /\ ompt_loaded' = env_val[w]
            /\ first_eval' = IF first_eval = << >> THEN << env_val[w] >>
                             ELSE first_eval
            /\ UNCHANGED first_call
       ELSE /\ first_call' = FALSE
            /\ UNCHANGED << ompt_loaded, first_eval >>
  /\ pend' = [ pend EXCEPT ![w] = pend[w] \ { v } ]
  /\ pc' = [ pc EXCEPT ![w] = IF pend'[w] = {} THEN "test" ELSE "store" ]
  /\ UNCHANGED << env, out, ts_calls, done, annotation, env_val, timestamp,
                  latch, check_count, hostVars, clockVars >>

\* if (!ompt_loaded) return;
annotate_test(w) ==
  /\ Alive
  /\ pc[w] = "test"
  /\ IF ompt_loaded
       THEN /\ pc' = [ pc EXCEPT ![w] = "stamp" ]
            /\ UNCHANGED << done, annotation >>
       ELSE /\ pc' = [ pc EXCEPT ![w] = "idle" ]
            /\ done' = [ done EXCEPT ![w] =
                           [ op |-> "ompt_annotate",
                             args |-> << annotation[w] >>,
                             enabled |-> FALSE, latch |-> latch[w],
                             at |-> 0, n |-> 0 ] ]
            /\ annotation' = [ annotation EXCEPT ![w] = "" ]
  /\ UNCHANGED << env, out, ts_calls, env_val, pend, timestamp, latch,
                  flagVars, hostVars, clockVars >>

\* double timestamp = get_timestamp();
annotate_stamp(w) ==
  /\ Alive
  /\ pc[w] = "stamp"
  /\ timestamp' = [ timestamp EXCEPT ![w] = get_timestamp(clock) ]
  /\ ts_calls' = ts_calls + 1
  /\ pc' = [ pc EXCEPT ![w] = "print" ]
  /\ UNCHANGED << env, out, done, annotation, env_val, pend, latch,
                  flagVars, hostVars, clockVars >>

\* What ompt_annotate prints once it is past the guard.
annotate_output(w) ==
  << annotate_line(omp_get_thread_num(w), timestamp[w], annotation[w]) >>

\* int thread_id = omp_get_thread_num(); printf(...); return.
annotate_print(w) ==
  /\ Alive
  /\ pc[w] = "print"
  /\ out' = out \o annotate_output(w)
  /\ done' = [ done EXCEPT ![w] =
                 [ op |-> "ompt_annotate", args |-> << annotation[w] >>,
                   enabled |-> TRUE, latch |-> latch[w],
                   at |-> Len(out) + 1, n |-> Len(out') - Len(out) ] ]
  /\ pc' = [ pc EXCEPT ![w] = "idle" ]
  /\ annotation' = [ annotation EXCEPT ![w] = "" ]
  /\ timestamp' = [ timestamp EXCEPT ![w] = 0 ]
  /\ UNCHANGED << env, ts_calls, env_val, pend, latch, flagVars, hostVars,
                  clockVars >>

\* ompt_mark_roi_start() and ompt_mark_roi_end() enter ompt_annotate.
ompt_mark_roi_start(w) == annotate_enter(w, "ROI_START")

ompt_mark_roi_end(w) == annotate_enter(w, "ROI_END")

\* ------------------------------------------------------------ tool start-up
\* ompt_start_tool: the host finds the entry symbol and calls it.
ompt_start_tool ==
  /\ tool = "unloaded"
  /\ tool' = "started"
  /\ result' = [ initialize |-> "initializer", finalize |-> "finalizer",
                 tool_data |-> 0 ]
  /\ UNCHANGED << env, out, ts_calls, done, lookup, callbacks, init_ret,
                  annotVars, flagVars, clockVars >>

\* The host's registration function, as the initializer uses it.
ompt_set_callback(table, event, handler) == [ table EXCEPT ![event] = handler ]

\* Registrations with the work and implicit-task handlers exchanged.
Registrations_exchanged ==
  << << "ompt_callback_parallel_begin", "on_ompt_callback_parallel_begin" >>,
     << "ompt_callback_parallel_end", "on_ompt_callback_parallel_end" >>,
     << "ompt_callback_work", "on_ompt_callback_implicit_task" >>,
     << "ompt_callback_implicit_task", "on_ompt_callback_work" >>,
     << "ompt_callback_sync_region", "on_ompt_callback_sync_region" >> >>

\* The registrations the initializer makes, in its order.
Registrations ==
  << << "ompt_callback_parallel_begin", "on_ompt_callback_parallel_begin" >>,
     << "ompt_callback_parallel_end", "on_ompt_callback_parallel_end" >>,
     << "ompt_callback_work", "on_ompt_callback_work" >>,
     << "ompt_callback_implicit_task", "on_ompt_callback_implicit_task" >>,
     << "ompt_callback_sync_region", "on_ompt_callback_sync_region" >> >>

RECURSIVE RegisterAll(_, _)
RegisterAll(table, regs) ==
  IF regs = << >> THEN table
  ELSE RegisterAll(ompt_set_callback(table, Head(regs)[1], Head(regs)[2]),
                   Tail(regs))

\* initializer(lookup, ...).  lk is what the host passes as lookup: a null
\* pointer, a function that does not know "ompt_set_callback", or one that
\* resolves it.  The call lookup("ompt_set_callback") is made unguarded: through
\* a null pointer it is undefined and ends the process, with the first line
\* still in the stdio buffer or already written.
initializer(lk) ==
  /\ tool = "started"
  /\ result.initialize = "initializer"
  /\ lookup' = lk
  /\ LET greeted == Append(out, ToolLine("OMPT Tool Initialized"))
     IN  IF lk = "null"
           THEN /\ tool' = "crashed"
                /\ out' \in { out, greeted }
                /\ UNCHANGED << callbacks, init_ret >>
         ELSE IF lk = "resolving"
           THEN /\ callbacks' = RegisterAll(callbacks, Registrations)
                /\ out' = Append(greeted,
                     ToolLine("OMPT callbacks registered successfully"))
                /\ init_ret' = << 1 >>
                /\ tool' = "initialized"
         ELSE   /\ out' = Append(greeted,
                     ToolLine("Warning: Could not register OMPT callbacks"))
                /\ init_ret' = << 1 >>
                /\ tool' = "initialized"
                /\ UNCHANGED callbacks
  /\ UNCHANGED << env, ts_calls, done, result, annotVars, flagVars,
                  clockVars >>

\* finalizer(tool_data): the host detaches the tool.
finalizer ==
  /\ tool = "initialized"
  /\ result.finalize = "finalizer"
  /\ tool' = "finalized"
  /\ out' = Append(out, ToolLine("OMPT Tool Finalized"))
  /\ UNCHANGED << env, ts_calls, done, result, lookup, callbacks, init_ret,
                  annotVars, flagVars, clockVars >>

\* ------------------------------------------------------------ specifications
AnnotateSteps(W) ==
  \/ \E w \in W : annotate_read_first_call(w)
  \/ \E w \in W : check_ompt_loaded(w)
  \/ \E w \in W : \E v \in { "ompt_loaded", "first_call" } :
       annotate_store(w, v)
  \/ \E w \in W : annotate_test(w)
  \/ \E w \in W : annotate_stamp(w)
  \/ \E w \in W : annotate_print(w)

\* The host calls the handlers, their arguments drawn from the given sets.
HandlerSteps(W, Rq, Wt, Sk, Ep) ==
  \/ \E w \in W : \E r \in Rq : on_ompt_callback_parallel_begin(w, r)
  \/ \E w \in W : on_ompt_callback_parallel_end(w)
  \/ \E w \in W : \E t \in Wt : \E e \in Ep : \E c \in Counts :
       on_ompt_callback_work(w, t, e, c)
  \/ \E w \in W : \E e \in Ep : \E z \in TeamSizes :
       on_ompt_callback_implicit_task(w, e, z)
  \/ \E w \in W : \E k \in Sk : \E e \in Ep :
       on_ompt_callback_sync_region(w, k, e)

\* The host attaches the tool with a lookup that resolves.
Attach ==
  \/ ompt_start_tool
  \/ initializer("resolving")

\* The whole program: the host attaches the tool with any lookup and drives
\* the handlers, every worker annotates, time passes.  The environment stays
\* as it was when the process started.
Next ==
  \/ Tick
  \/ ompt_start_tool
  \/ \E lk \in Lookups : initializer(lk)
  \/ finalizer
  \/ \E w \in Workers : ompt_mark_roi_start(w)
  \/ \E w \in Workers : ompt_mark_roi_end(w)
  \/ AnnotateSteps(Workers)
  \/ HandlerSteps(Workers, { 4 }, SomeWorkTypes, SomeSyncKinds,
                  { "ompt_scope_begin" })

Spec == Init /\ [][Next]_vars

\* The application changes the environment while its workers annotate.
NextEnv ==
  \/ Tick
  \/ EnvChange
  \/ \E w \in Workers : ompt_mark_roi_start(w)
  \/ AnnotateSteps(Workers)

SpecEnv == Init /\ [][NextEnv]_vars

\* One worker's trace against the clock: every handler and the annotation
\* primitive, while time passes.
NextClock ==
  \/ Tick
  \/ Attach
  \/ \E w \in TraceWorkers : ompt_mark_roi_start(w)
  \/ AnnotateSteps(TraceWorkers)
  \/ HandlerSteps(TraceWorkers, { 4 }, { "ompt_work_loop" },
                  { "ompt_sync_region_barrier" }, { "ompt_scope_begin" })

SpecClock == Init /\ [][NextClock]_vars

\* One worker's calls with their payloads varied, the clock standing still.
NextEmit ==
  \/ Attach
  \/ \E w \in TraceWorkers : ompt_mark_roi_start(w)
  \/ \E w \in TraceWorkers : ompt_mark_roi_end(w)
  \/ AnnotateSteps(TraceWorkers)
  \/ HandlerSteps(TraceWorkers, Requested, { "ompt_work_loop" },
                  { "ompt_sync_region_barrier" }, { "ompt_scope_begin" })

SpecEmit == Init /\ [][NextEmit]_vars

\* The master thread's handlers that take a kind or an endpoint, over every
\* value of the enumerations.
NextKinds ==
  \/ Attach
  \/ \E w \in MasterOnly : \E t \in WorkTypes : \E e \in Endpoints :
       \E c \in Counts : on_ompt_callback_work(w, t, e, c)
  \/ \E w \in MasterOnly : \E e \in Endpoints : \E z \in TeamSizes :
       on_ompt_callback_implicit_task(w, e, z)
  \/ \E w \in MasterOnly : \E k \in SyncKinds : \E e \in Endpoints :
       on_ompt_callback_sync_region(w, k, e)

SpecKinds == Init /\ [][NextKinds]_vars

\* Attaching and detaching the tool with any lookup, the master thread
\* running parallel regions in between.
NextHost ==
  \/ Tick
  \/ ompt_start_tool
  \/ \E lk \in Lookups : initializer(lk)
  \/ finalizer
  \/ \E w \in MasterOnly : \E r \in Requested :
       on_ompt_callback_parallel_begin(w, r)
  \/ \E w \in MasterOnly : on_ompt_callback_parallel_end(w)

SpecHost == Init /\ [][NextHost]_vars

\* ------------------------------------------------------------------ claims
\* The record the last completed call of worker w wrote.
Written(w) == out[done[w].at]

Wrote(w) == done[w].at \in DOMAIN out /\ IsEvent(Written(w))

\* C1: with OMP_TOOL_LIBRARIES absent, no call of a lifecycle handler or of
\* ompt_annotate writes an event line to stdout or calls get_timestamp.
C1_SilentWhenAbsent == ~env => (NumEvents = 0 /\ ts_calls = 0)

\* C2: check_ompt_loaded executes at most once in the process, and from its
\* first execution on ompt_loaded keeps the value that execution stored,
\* however the workers' ompt_annotate calls interleave and whatever happens
\* to the environment in between.
C2_ComputedOnce ==
  /\ check_count <= 1
  /\ first_eval # << >> => ompt_loaded = first_eval[1]

C4_CheckedBeforeEmit == NumEvents > 0 => first_call = FALSE

\* C5: the timestamps printed in one worker's records, read back from the
\* records, are non-decreasing in the order the records were written, for
\* every sequence of handler and ompt_annotate calls of that worker.
C5_TimestampsOrdered ==
  \A i \in EventIdx : \A j \in EventIdx :
    (i < j /\ out[i].thread = out[j].thread)
    => ParseMs(out[i].ms) <= ParseMs(out[j].ms)

\* C5 witness: a worker has written an annotation and later a handler record
\* whose printed time is larger, the clock's seconds having rolled over.
C5_Witness ==
  \E i \in EventIdx : \E j \in EventIdx :
    /\ i < j
    /\ out[i].thread = out[j].thread
    /\ out[i].prefix = "[OMPT_annotation]"
    /\ out[j].prefix = "[OMPT]"
    /\ ParseMs(out[i].ms) < ParseMs(out[j].ms)
    /\ clock.tv_sec > 0

\* C6: a call of a lifecycle handler or of ompt_annotate that finds
\* activation enabled (ompt_loaded true) writes exactly one record, and the
\* record carries the calling worker's identifier and the payload the call
\* was given: requested parallelism, item count, team size or label.
C6_OneRecordPerCall ==
  \A w \in Workers :
    (done[w].op # "none" /\ done[w].enabled) =>
      /\ done[w].n = 1
      /\ Wrote(w)
      /\ Written(w).thread = w
      /\ CASE done[w].op = "on_ompt_callback_parallel_begin" ->
                /\ Written(w).event = << "PARALLEL BEGIN" >>
                /\ Written(w).attrs = << done[w].args[1] >>
           [] done[w].op = "on_ompt_callback_parallel_end" ->
                /\ Written(w).event = << "PARALLEL END" >>
                /\ Written(w).attrs = << >>
           [] done[w].op = "on_ompt_callback_work" ->
                /\ Written(w).event[1] = "WORK"
                /\ Written(w).attrs[2] = done[w].args[3]
           [] done[w].op = "on_ompt_callback_implicit_task" ->
                Written(w).attrs = << done[w].args[2] >>
           [] done[w].op = "on_ompt_callback_sync_region" ->
                Written(w).attrs = << >>
           [] done[w].op = "ompt_annotate" ->
                /\ Written(w).prefix = "[OMPT_annotation]"
                /\ Written(w).attrs = << done[w].args[1] >>

\* C6 witness: after an ompt_annotate("ROI_START") that wrote its record, a
\* worker's parallel-begin call for 4 threads has completed with activation
\* enabled.
C6_Witness ==
  \E w \in Workers :
    /\ done[w].op = "on_ompt_callback_parallel_begin"
    /\ done[w].enabled
    /\ done[w].args = << 4 >>
    /\ \E i \in EventIdx : /\ out[i].prefix = "[OMPT_annotation]"
                           /\ out[i].attrs = << "ROI_START" >>

\* C7: when the lookup is unavailable (a null pointer) or does not resolve
\* ompt_set_callback, the initializer does not end the process, registers no
\* callback, writes one line saying the callbacks could not be registered and
\* returns 1; and whenever the initializer has been called it returns 1.
C7_InitializerDegrades ==
  /\ lookup # "none" => (tool # "crashed" /\ init_ret = << 1 >>)
  /\ lookup \in { "null", "unresolving" } =>
       /\ callbacks = NoCallbacks
       /\ Cardinality({ i \in DOMAIN out :
            out[i] = ToolLine("Warning: Could not register OMPT callbacks") })
          = 1

\* C8: the work handler and the sync-region handler write their record for
\* every kind value; each of the seven recognized kinds is shown under its
\* own name and every other value as "unknown".
C8_KindNames ==
  \A w \in Workers :
    /\ done[w].op = "on_ompt_callback_work" =>
         /\ done[w].n = 1
         /\ Wrote(w)
         /\ Written(w).attrs[1] =
              CASE done[w].args[1] = "ompt_work_loop" -> "loop"
                [] done[w].args[1] = "ompt_work_sections" -> "sections"
                [] done[w].args[1] = "ompt_work_single_executor" -> "single"
                [] done[w].args[1] = "ompt_work_single_other" -> "single_other"
                [] done[w].args[1] = "ompt_work_workshare" -> "workshare"
                [] done[w].args[1] = "ompt_work_distribute" -> "distribute"
                [] done[w].args[1] = "ompt_work_taskloop" -> "taskloop"
                [] OTHER -> "unknown"
    /\ done[w].op = "on_ompt_callback_sync_region" =>
         /\ done[w].n = 1
         /\ Wrote(w)
         /\ Written(w).event[2] =
              CASE done[w].args[1] = "ompt_sync_region_barrier" -> "barrier"
                [] done[w].args[1] = "ompt_sync_region_barrier_implicit" ->
                     "implicit_barrier"
                [] done[w].args[1] = "ompt_sync_region_barrier_explicit" ->
                     "explicit_barrier"
                [] done[w].args[1] = "ompt_sync_region_barrier_implementation" ->
                     "implementation_barrier"
                [] done[w].args[1] = "ompt_sync_region_taskwait" -> "taskwait"
                [] done[w].args[1] = "ompt_sync_region_taskgroup" -> "taskgroup"
                [] done[w].args[1] = "ompt_sync_region_reduction" -> "reduction"
                [] OTHER -> "unknown"

\* C8 witness: a work call with a kind the handler does not know has written
\* "unknown", after a sync-region call with a known kind wrote its name.
C8_Witness ==
  \E w \in Workers :
    /\ done[w].op = "on_ompt_callback_work"
    /\ done[w].args[1] = "ompt_work_scope"
    /\ Wrote(w)
    /\ Written(w).attrs[1] = "unknown"
    /\ \E i \in EventIdx : out[i].event = << "ENTER", "taskwait" >>

C10_DirectionByBegin ==
  \A w \in Workers :
    /\ done[w].op = "on_ompt_callback_work" =>
         /\ Wrote(w)
         /\ Written(w).event[2] =
              (IF done[w].args[2] = "ompt_scope_begin" THEN "START" ELSE "END")
    /\ done[w].op = "on_ompt_callback_implicit_task" =>
         /\ Wrote(w)
         /\ Written(w).event[1] =
              (IF done[w].args[1] = "ompt_scope_begin" THEN "TASK START"
               ELSE "TASK FINISH")
    /\ done[w].op = "on_ompt_callback_sync_region" =>
         /\ Wrote(w)
         /\ Written(w).event[1] =
              (IF done[w].args[2] = "ompt_scope_begin" THEN "ENTER"
               ELSE "EXIT")

\* C10 witness: an implicit-task call whose endpoint is neither begin nor end
\* has written TASK FINISH, after a work call at ompt_scope_begin wrote START.
C10_Witness ==
  \E w \in Workers :
    /\ done[w].op = "on_ompt_callback_implicit_task"
    /\ done[w].args[1] = "ompt_scope_beginend"
    /\ Wrote(w)
    /\ Written(w).event = << "TASK FINISH" >>
    /\ \E i \in EventIdx : out[i].event = << "WORK", "START" >>

====
